---- MODULE Spec2Model ----
(***************************************************************************)
(* TechHealth coordination and session-memory core                         *)
(* (src/techhealth_agent.py).                                              *)
(*                                                                         *)
(* A TechHealthSystem object is shared by a few caller threads.  Each      *)
(* thread runs one facade call at a time; a call advances one source       *)
(* statement per step, so calls of different threads interleave between    *)
(* the generator call, the "session_id in session_memory" test and the     *)
(* append to the session's interaction list.                               *)
(***************************************************************************)
EXTENDS Integers, Sequences, FiniteSets, TLC

\* ---------------------------------------------------------------- bounds
NumThreads == 2
MaxClock   == 1
MaxCalls   == 2

Threads == 1..NumThreads

\* ---------------------------------------------------------------- inputs
Users     == {"u1", "u2"}
Questions == {"q1", "q2"}
Profiles  == {"p1", "p2"}
Texts     == {"text"}
Messages  == {"quota"}

\* What one call of model.generate_content(prompt) / response.text does:
\* it yields a text, or an exception whose str() is a message.
Outcomes == [ok : {TRUE}, text : Texts] \cup [ok : {FALSE}, text : Messages]

VARIABLES
    clock,           \* the value datetime.now() reads
    session_memory,  \* CoordinationAgent.session_memory: session id -> record
    pc,              \* per thread: the statement its call is at
    frame,           \* per thread: arguments and locals of its call
    ncalls           \* number of facade calls started so far

vars == <<clock, session_memory, pc, frame, ncalls>>

\* ------------------------------------------------------- pure functions

\* f"session_{user_id}_{datetime.now().timestamp()}": the text after the
\* last "_" is the timestamp, so the string determines both parts.
SessionId(user_id, ts) == <<"session", user_id, ts>>

SessionIds == {SessionId(u, ts) : u \in Users, ts \in 0..MaxClock}

\* The identifiers a caller passes in: one it was given by an earlier
\* start_wellness_session, or a fixed one that is bound only if "u1"
\* starts a session at time 0.
ProbeId == SessionId("u1", 0)

CallerIds(sm) == DOMAIN sm \cup {ProbeId}

NoSession == SessionId("", 0)
NoResult  == [status |-> "none"]

\* The value an advisor hands back (raised = FALSE) or the exception that
\* leaves it (raised = TRUE).
Returns(v) == [raised |-> FALSE, value |-> v]
Raises(m)  == [raised |-> TRUE, value |-> [error |-> m]]

ErrorResult_raise(name, out) == Raises(out.text)

ErrorResult(name, out) ==
    Returns([agent |-> name, status |-> "error", error |-> out.text])

analyze_health_data(out, now) ==
    IF out.ok
    THEN Returns([agent |-> "HealthMonitor", timestamp |-> now,
                  analysis |-> out.text, status |-> "success"])
    ELSE ErrorResult("HealthMonitor", out)

generate_recommendations(out, now) ==
    IF out.ok
    THEN Returns([agent |-> "RecommendationEngine", timestamp |-> now,
                  recommendations |-> out.text, status |-> "success"])
    ELSE ErrorResult("RecommendationEngine", out)

answer_question(question, out, now) ==
    IF out.ok
    THEN Returns([agent |-> "MedicalQA", timestamp |-> now,
                  question |-> question, answer |-> out.text,
                  status |-> "success"])
    ELSE ErrorResult("MedicalQA", out)

\* The prompts handed to generate_content.  The caller's metrics and
\* profile are rendered into the text and go nowhere else; what a prompt
\* takes from the state of the call is kept.
AnalysisPrompt == [template |-> "analysis"]

RecommendationPrompt_blank(health_analysis) ==
    [template |-> "recommendations", analysis |-> "No analysis available"]

\* health_analysis.get('analysis', 'No analysis available')
RecommendationPrompt(health_analysis) ==
    [template |-> "recommendations",
     analysis |-> IF "analysis" \in DOMAIN health_analysis
                  THEN health_analysis.analysis
                  ELSE "No analysis available"]

QuestionPrompt(question) == [template |-> "question", question |-> question]

AppendStep_front(steps, result) == <<result>> \o steps

\* workflow_result['steps'].append(...)
AppendStep(steps, result) == Append(steps, result)

NextAfterAnalysis_always(health_analysis) == "hc_recommend"

\* if health_analysis['status'] == 'success': the statement that follows
\* the analysis step.
NextAfterAnalysis(health_analysis) ==
    IF health_analysis.status = "success" THEN "hc_recommend" ELSE "hc_check"

SessionExists_always(sm, session_id) == TRUE

\* "if session_id in self.session_memory" of the two workflows
SessionExists(sm, session_id) == session_id \in DOMAIN sm

NewRecord_anonymous(user_id, now) ==
    [user_id |-> "", created_at |-> now, interactions |-> <<>>]

\* self.session_memory[session_id] = {...}: the key is bound to a new
\* record, whether or not it was bound before.
NewRecord(user_id, now) ==
    [user_id |-> user_id, created_at |-> now, interactions |-> <<>>]

StoreRecord_evict(sm, session_id, rec) == [k \in {session_id} |-> rec]

StoreRecord(sm, session_id, rec) ==
    [k \in DOMAIN sm \cup {session_id} |->
        IF k = session_id THEN rec ELSE sm[k]]

AppendInteraction_dedupe(sm, session_id, result) ==
    [sm EXCEPT ![session_id].interactions =
        IF \E i \in 1..Len(@) : @[i] = result THEN @ ELSE Append(@, result)]

\* self.session_memory[session_id]['interactions'].append(result)
AppendInteraction(sm, session_id, result) ==
    [sm EXCEPT ![session_id].interactions = Append(@, result)]

get_session_summary(sm, session_id) ==
    IF session_id \in DOMAIN sm
    THEN sm[session_id]
    ELSE [error |-> "Session not found"]

\* CoordinationAgent.create_session(user_id): the store it leaves and the
\* identifier it returns, for the two readings of the clock it takes.
create_session(sm, user_id, now, now2) ==
    [session_memory |-> StoreRecord(sm, SessionId(user_id, now),
                                    NewRecord(user_id, now2)),
     value |-> SessionId(user_id, now)]


\* --------------------------------------------------------------- frames
IdleFrame ==
    [op |-> "none", session_id |-> NoSession, user_id |-> "",
     question |-> "", result |-> NoResult, prompts |-> <<>>, gen |-> <<>>]

Init ==
    /\ clock = 0
    /\ session_memory = <<>>
    /\ pc = [t \in Threads |-> "idle"]
    /\ frame = [t \in Threads |-> IdleFrame]
    /\ ncalls = 0

\* The wall clock moves on between any two statements.
Tick ==
    /\ clock < MaxClock
    /\ clock' = clock + 1
    /\ UNCHANGED <<session_memory, pc, frame, ncalls>>

\* A thread starts a call when it has none running: at the start, or
\* after its previous call has returned (the returned value stays in its
\* frame until then).
ReturnPcs == {"cs_ret", "hc_ret", "qa_ret", "gs_ret"}

Begin(t) ==
    /\ pc[t] \in {"idle"} \cup ReturnPcs
    /\ ncalls < MaxCalls
    /\ ncalls' = ncalls + 1

start_wellness_session_profile(t, user_id, user_profile) ==
    /\ Begin(t)
    /\ \E now2 \in {clock, IF clock < MaxClock THEN clock + 1 ELSE clock} :
         LET session_id == SessionId(user_id, clock) IN
         /\ session_memory' =
                StoreRecord(session_memory, session_id,
                            [user_id |-> user_id, created_at |-> now2,
                             interactions |-> <<>>,
                             profile |-> user_profile])
         /\ clock' = now2
         /\ frame' = [frame EXCEPT ![t] =
                [IdleFrame EXCEPT !.op = "start_wellness_session",
                                  !.user_id = user_id,
                                  !.session_id = session_id]]
    /\ pc' = [pc EXCEPT ![t] = "cs_ret"]

\* start_wellness_session -> create_session.  The clock is read twice
\* (session id, created_at); it may move on between the two reads.
\* user_profile is accepted and not used (lines 236-240).
start_wellness_session(t, user_id, user_profile) ==
    /\ Begin(t)
    /\ \E now2 \in {clock, IF clock < MaxClock THEN clock + 1 ELSE clock} :
         LET session_id == SessionId(user_id, clock) IN
         /\ session_memory' =
                StoreRecord(session_memory, session_id,
                            NewRecord(user_id, now2))
         /\ clock' = now2
         /\ frame' = [frame EXCEPT ![t] =
                [IdleFrame EXCEPT !.op = "start_wellness_session",
                                  !.user_id = user_id,
                                  !.session_id = session_id]]
    /\ pc' = [pc EXCEPT ![t] = "cs_ret"]

\* perform_health_check -> process_health_check, up to the construction of
\* workflow_result.
perform_health_check(t, session_id) ==
    /\ Begin(t)
    /\ frame' = [frame EXCEPT ![t] =
            [IdleFrame EXCEPT !.op = "perform_health_check",
                              !.session_id = session_id,
                              !.result =
                                 [session_id |-> session_id,
                                  workflow |-> "health_check",
                                  timestamp |-> clock,
                                  steps |-> <<>>]]]
    /\ pc' = [pc EXCEPT ![t] = "hc_analyze"]
    /\ UNCHANGED <<clock, session_memory>>

\* Step 1: health_analysis = analyze_health_data(user_data); append it to
\* the steps; then the test of health_analysis['status'].
HealthAnalysis(t) ==
    /\ pc[t] = "hc_analyze"
    /\ \E out \in Outcomes :
         LET r == analyze_health_data(out, clock) IN
         IF r.raised
         THEN /\ pc' = [pc EXCEPT ![t] = "raised"]
              /\ frame' = [frame EXCEPT ![t].gen = Append(@, out)]
         ELSE /\ frame' = [frame EXCEPT
                    ![t].prompts = Append(@, AnalysisPrompt),
                    ![t].gen = Append(@, out),
                    ![t].result.steps = AppendStep(@, r.value)]
              /\ pc' = [pc EXCEPT ![t] = NextAfterAnalysis(r.value)]
    /\ UNCHANGED <<clock, session_memory, ncalls>>

\* Step 2: recommendations = generate_recommendations(profile, analysis).
Recommend(t) ==
    /\ pc[t] = "hc_recommend"
    /\ \E out \in Outcomes :
         LET r == generate_recommendations(out, clock) IN
         IF r.raised
         THEN /\ pc' = [pc EXCEPT ![t] = "raised"]
              /\ frame' = [frame EXCEPT ![t].gen = Append(@, out)]
         ELSE /\ frame' = [frame EXCEPT
                    ![t].prompts = Append(@,
                        RecommendationPrompt(frame[t].result.steps[1])),
                    ![t].gen = Append(@, out),
                    ![t].result.steps = AppendStep(@, r.value)]
              /\ pc' = [pc EXCEPT ![t] = "hc_check"]
    /\ UNCHANGED <<clock, session_memory, ncalls>>

\* ask_medical_question -> handle_question.
ask_medical_question(t, session_id, question) ==
    /\ Begin(t)
    /\ frame' = [frame EXCEPT ![t] =
            [IdleFrame EXCEPT !.op = "ask_medical_question",
                              !.session_id = session_id,
                              !.question = question]]
    /\ pc' = [pc EXCEPT ![t] = "qa_answer"]
    /\ UNCHANGED <<clock, session_memory>>

\* result = self.medical_qa.answer_question(question)
Answer(t) ==
    /\ pc[t] = "qa_answer"
    /\ \E out \in Outcomes :
         LET r == answer_question(frame[t].question, out, clock) IN
         IF r.raised
         THEN /\ pc' = [pc EXCEPT ![t] = "raised"]
              /\ frame' = [frame EXCEPT ![t].gen = Append(@, out)]
         ELSE /\ frame' = [frame EXCEPT
                    ![t].prompts = Append(@, QuestionPrompt(frame[t].question)),
                    ![t].gen = Append(@, out),
                    ![t].result = r.value]
              /\ pc' = [pc EXCEPT ![t] = "qa_check"]
    /\ UNCHANGED <<clock, session_memory, ncalls>>

CheckSession_abort(t) ==
    /\ pc[t] \in {"hc_check", "qa_check"}
    /\ LET hc == pc[t] = "hc_check" IN
       IF SessionExists(session_memory, frame[t].session_id)
       THEN /\ pc' = [pc EXCEPT ![t] = IF hc THEN "hc_store" ELSE "qa_store"]
            /\ UNCHANGED frame
       ELSE /\ pc' = [pc EXCEPT ![t] = IF hc THEN "hc_ret" ELSE "qa_ret"]
            /\ frame' = [frame EXCEPT ![t].result =
                            [error |-> "Session not found"]]
    /\ UNCHANGED <<clock, session_memory, ncalls>>

\* if session_id in self.session_memory: when the test fails only the
\* return is left, which touches nothing shared, so the call is returned.
CheckSession(t) ==
    /\ pc[t] \in {"hc_check", "qa_check"}
    /\ LET hc == pc[t] = "hc_check" IN
       pc' = [pc EXCEPT ![t] =
            IF SessionExists(session_memory, frame[t].session_id)
            THEN (IF hc THEN "hc_store" ELSE "qa_store")
            ELSE (IF hc THEN "hc_ret" ELSE "qa_ret")]
    /\ UNCHANGED <<clock, session_memory, frame, ncalls>>

StoreInteraction_locked(t) ==
    /\ pc[t] \in {"hc_store", "qa_store"}
    /\ \A o \in Threads \ {t} :
           pc[o] \notin {"hc_analyze", "hc_recommend", "qa_answer"}
    /\ IF frame[t].session_id \in DOMAIN session_memory
       THEN /\ session_memory' =
                  AppendInteraction(session_memory, frame[t].session_id,
                                    frame[t].result)
            /\ pc' = [pc EXCEPT ![t] =
                  IF pc[t] = "hc_store" THEN "hc_return" ELSE "qa_return"]
       ELSE /\ pc' = [pc EXCEPT ![t] = "raised"]
            /\ UNCHANGED session_memory
    /\ UNCHANGED <<clock, frame, ncalls>>

\* self.session_memory[session_id]['interactions'].append(...); the
\* subscript raises KeyError for a key that is not bound.
StoreInteraction(t) ==
    /\ pc[t] \in {"hc_store", "qa_store"}
    /\ IF frame[t].session_id \in DOMAIN session_memory
       THEN /\ session_memory' =
                  AppendInteraction(session_memory, frame[t].session_id,
                                    frame[t].result)
            /\ pc' = [pc EXCEPT ![t] =
                  IF pc[t] = "hc_store" THEN "hc_return" ELSE "qa_return"]
       ELSE /\ pc' = [pc EXCEPT ![t] = "raised"]
            /\ UNCHANGED session_memory
    /\ UNCHANGED <<clock, frame, ncalls>>

\* logger.info(...); return workflow_result   /   return result: the
\* statements between the append and the moment the caller has the value.
ReturnResult(t) ==
    /\ pc[t] \in {"hc_return", "qa_return"}
    /\ pc' = [pc EXCEPT ![t] =
          IF pc[t] = "hc_return" THEN "hc_ret" ELSE "qa_ret"]
    /\ UNCHANGED <<clock, session_memory, frame, ncalls>>

get_session_history_create(t, session_id) ==
    /\ Begin(t)
    /\ session_memory' =
          IF session_id \in DOMAIN session_memory
          THEN session_memory
          ELSE StoreRecord(session_memory, session_id, NewRecord("", clock))
    /\ frame' = [frame EXCEPT ![t] =
            [IdleFrame EXCEPT !.op = "get_session_history",
                              !.session_id = session_id,
                              !.result =
                                 get_session_summary(session_memory',
                                                     session_id)]]
    /\ pc' = [pc EXCEPT ![t] = "gs_ret"]
    /\ UNCHANGED clock

\* get_session_history -> get_session_summary.
get_session_history(t, session_id) ==
    /\ Begin(t)
    /\ frame' = [frame EXCEPT ![t] =
            [IdleFrame EXCEPT !.op = "get_session_history",
                              !.session_id = session_id,
                              !.result =
                                 get_session_summary(session_memory,
                                                     session_id)]]
    /\ pc' = [pc EXCEPT ![t] = "gs_ret"]
    /\ UNCHANGED <<clock, session_memory>>

Next ==
    \/ Tick
    \/ \E t \in Threads, u \in Users, p \in Profiles :
           start_wellness_session(t, u, p)
    \/ \E t \in Threads, s \in CallerIds(session_memory) : perform_health_check(t, s)
    \/ \E t \in Threads : HealthAnalysis(t)
    \/ \E t \in Threads : Recommend(t)
    \/ \E t \in Threads, s \in CallerIds(session_memory), q \in Questions :
           ask_medical_question(t, s, q)
    \/ \E t \in Threads : Answer(t)
    \/ \E t \in Threads : CheckSession(t)
    \/ \E t \in Threads : StoreInteraction(t)
    \/ \E t \in Threads : ReturnResult(t)
    \/ \E t \in Threads, s \in CallerIds(session_memory) : get_session_history(t, s)

Spec == Init /\ [][Next]_vars

\* ---------------------------------------------------- concurrent workflows
\* NumThreads workflow calls that have all been entered before any of them
\* runs a statement, against a store that holds one session with one
\* earlier interaction.  ProbeId is not bound in this store.
S0 == SessionId("u2", 0)

PriorHistory == <<[agent |-> "MedicalQA", status |-> "error", error |-> "quota"]>>

EnteredCalls ==
    {[IdleFrame EXCEPT !.op = "ask_medical_question",
                       !.session_id = s, !.question = q] :
         s \in {S0, ProbeId}, q \in Questions}
    \cup
    {[IdleFrame EXCEPT !.op = "perform_health_check",
                       !.session_id = s,
                       !.result = [session_id |-> s,
                                   workflow |-> "health_check",
                                   timestamp |-> 0,
                                   steps |-> <<>>]] :
         s \in {S0, ProbeId}}

InitRun ==
    /\ clock = 0
    /\ session_memory =
          [k \in {S0} |-> [user_id |-> "u2", created_at |-> 0,
                            interactions |-> PriorHistory]]
    /\ frame \in [Threads -> EnteredCalls]
    /\ pc = [t \in Threads |->
                IF frame[t].op = "perform_health_check"
                THEN "hc_analyze" ELSE "qa_answer"]
    /\ ncalls = 0

NextRun ==
    \/ Tick
    \/ \E t \in Threads : HealthAnalysis(t)
    \/ \E t \in Threads : Recommend(t)
    \/ \E t \in Threads : Answer(t)
    \/ \E t \in Threads : CheckSession(t)
    \/ \E t \in Threads : StoreInteraction(t)
    \/ \E t \in Threads : ReturnResult(t)

SpecRun == InitRun /\ [][NextRun]_vars

\* ------------------------------------------------------ a store in use
\* The facade calls of Spec, starting from a store that already holds two
\* sessions created at time 0: S0 with one earlier interaction, and S1
\* with none.
S1 == SessionId("u1", 0)

InitWarm ==
    /\ clock = 0
    /\ session_memory =
          [k \in {S0, S1} |->
              IF k = S0
              THEN [user_id |-> "u2", created_at |-> 0,
                    interactions |-> PriorHistory]
              ELSE NewRecord("u1", 0)]
    /\ pc = [t \in Threads |-> "idle"]
    /\ frame = [t \in Threads |-> IdleFrame]
    /\ ncalls = 0

SpecWarm == InitWarm /\ [][Next]_vars

\* ------------------------------------------------------------ properties

NotFound == [error |-> "Session not found"]

Took(t) == pc'[t] # pc[t]

Sid(t) == frame[t].session_id

\* this step is thread t running start_wellness_session
Created(t) ==
    \E u \in Users : \E p \in Profiles : start_wellness_session(t, u, p)

WorkflowPcs ==
    {"hc_analyze", "hc_recommend", "hc_check", "hc_store", "hc_return",
     "qa_answer", "qa_check", "qa_store", "qa_return"}

\* C1: every identifier start_wellness_session returns differs from every
\* identifier returned before (the keys of session_memory are exactly the
\* identifiers returned so far), also for the same user within one clock
\* tick.
C1_DistinctSessionIds ==
    [][\A t \in Threads :
          Created(t)
              => frame'[t].session_id \notin DOMAIN session_memory]_vars

\* C6: a step of a workflow whose session identifier is not a key of the
\* store does not raise and leaves the store unchanged, the existence test
\* leads straight to the return, and get_session_summary of that
\* identifier is the not-found value.
C6_UnknownSessionNotPersisted ==
    [][\A t \in Threads :
          (pc[t] \in WorkflowPcs /\ Took(t)
              /\ Sid(t) \notin DOMAIN session_memory)
          => /\ pc'[t] # "raised"
             /\ session_memory' = session_memory
             /\ pc[t] \in {"hc_check", "qa_check"}
                    => pc'[t] \in {"hc_ret", "qa_ret"}
             /\ get_session_summary(session_memory', Sid(t)) = NotFound
      ]_vars

C6_Witness ==
    \E t \in Threads :
        /\ pc[t] \in {"hc_ret", "qa_ret"}
        /\ Sid(t) \notin DOMAIN session_memory
        /\ frame[t].gen # <<>>
        /\ get_session_summary(session_memory, Sid(t)) = NotFound

\* C7: right after start_wellness_session(user_id) the summary of the
\* returned identifier is a session record with no interactions whose
\* user_id is the user passed in.
C7_FreshSessionEmpty ==
    [][\A t \in Threads :
          Created(t)
          => LET h == get_session_summary(session_memory',
                                          frame'[t].session_id) IN
             /\ DOMAIN h = {"user_id", "created_at", "interactions"}
             /\ Len(h.interactions) = 0
             /\ h.user_id = frame'[t].user_id
      ]_vars

C7_Witness ==
    \E t \in Threads :
        /\ pc[t] = "cs_ret"
        /\ Sid(t) \in DOMAIN session_memory
        /\ session_memory[Sid(t)].interactions = <<>>
        /\ session_memory[Sid(t)].user_id = frame[t].user_id

\* C8: no call is ever left by an exception, and each failed generator
\* call of a call shows as an error-status result carrying the advisor's
\* name and the failure's message.
AdvisorNames == <<"HealthMonitor", "RecommendationEngine">>

ErrorEnvelope(name, out) ==
    [agent |-> name, status |-> "error", error |-> out.text]

C8_AdvisorsNeverRaise ==
    \A t \in Threads :
        /\ pc[t] # "raised"
        /\ frame[t].op = "perform_health_check" =>
              \A i \in 1..Len(frame[t].gen) :
                  ~frame[t].gen[i].ok =>
                      /\ i <= Len(frame[t].result.steps)
                      /\ frame[t].result.steps[i] =
                            ErrorEnvelope(AdvisorNames[i], frame[t].gen[i])
        /\ (frame[t].op = "ask_medical_question" /\ frame[t].gen # <<>>
                /\ ~frame[t].gen[1].ok)
              => frame[t].result = ErrorEnvelope("MedicalQA", frame[t].gen[1])

C8_Witness ==
    \E t \in Threads :
        /\ pc[t] \in {"hc_ret", "qa_ret"}
        /\ \E i \in 1..Len(frame[t].gen) : ~frame[t].gen[i].ok


History(sm, session_id) == get_session_summary(sm, session_id).interactions

Last(h) == h[Len(h)]

IsHealthCheck(t) == frame[t].op = "perform_health_check"

\* the first generator call of thread t's health check failed
AnalysisFailed(t) ==
    /\ IsHealthCheck(t)
    /\ frame[t].gen # <<>>
    /\ ~frame[t].gen[1].ok

\* both generator calls of thread t's health check succeeded
BothSucceeded(t) ==
    /\ IsHealthCheck(t)
    /\ Len(frame[t].gen) = 2
    /\ frame[t].gen[1].ok
    /\ frame[t].gen[2].ok

\* C2: once the analysis generator call of a health check has failed, the
\* workflow result holds exactly one step, of status error, and the
\* recommendation advisor is never reached (one generator call only); if
\* the session exists at the existence test the call goes on to the store
\* statement, which appends exactly this workflow result at the end of the
\* session's history (length + 1).
C2_FailedState ==
    \A t \in Threads :
        AnalysisFailed(t) =>
            /\ pc[t] \in {"hc_check", "hc_store", "hc_return", "hc_ret"}
            /\ Len(frame[t].gen) = 1
            /\ Len(frame[t].result.steps) = 1
            /\ frame[t].result.steps[1].status = "error"

C2_FailedStep ==
    \A t \in Threads :
        (AnalysisFailed(t) /\ Took(t)) =>
            /\ (pc[t] = "hc_check" /\ Sid(t) \in DOMAIN session_memory)
                   => pc'[t] = "hc_store"
            /\ pc[t] = "hc_store" =>
                   /\ pc'[t] = "hc_return"
                   /\ History(session_memory', Sid(t)) =
                          Append(History(session_memory, Sid(t)),
                                 frame[t].result)
                   /\ Len(History(session_memory', Sid(t))) =
                          Len(History(session_memory, Sid(t))) + 1

\* C2: a failed analysis gives a one-step workflow result in every state,
\* and every step of such a call stores it as described above.
C2_FailedAnalysisOneStepAppended == []C2_FailedState /\ [][C2_FailedStep]_vars

C2_Witness ==
    \E t \in Threads :
        /\ pc[t] = "hc_ret"
        /\ AnalysisFailed(t)
        /\ Sid(t) \in DOMAIN session_memory
        /\ session_memory[Sid(t)].interactions # <<>>
        /\ Last(session_memory[Sid(t)].interactions) = frame[t].result
        /\ Len(frame[t].result.steps) = 1

\* C3: when both generator calls of a health check on an existing session
\* have succeeded, the call reaches the store statement, after which the
\* summary's history is the old history followed by this call's workflow
\* result, whose steps are exactly the HealthMonitor success result and
\* then the RecommendationEngine success result; an empty history becomes
\* one of length 1.
C3_SucceededStep ==
    \A t \in Threads :
        (BothSucceeded(t) /\ Took(t)) =>
            /\ (pc[t] = "hc_check" /\ Sid(t) \in DOMAIN session_memory)
                   => pc'[t] = "hc_store"
            /\ pc[t] = "hc_store" =>
                   LET h  == History(session_memory, Sid(t))
                       h2 == History(session_memory', Sid(t))
                       w  == Last(h2) IN
                   /\ pc'[t] = "hc_return"
                   /\ Len(h2) = Len(h) + 1
                   /\ SubSeq(h2, 1, Len(h)) = h
                   /\ w = frame'[t].result
                   /\ Len(w.steps) = 2
                   /\ w.steps[1].agent = "HealthMonitor"
                   /\ w.steps[1].status = "success"
                   /\ w.steps[2].agent = "RecommendationEngine"
                   /\ w.steps[2].status = "success"
                   /\ h = <<>> => Len(h2) = 1

\* C3: every step of a health check whose two generator calls succeeded
\* stores the two-step workflow result as the last entry.
C3_SuccessfulCheckIsLastEntry == [][C3_SucceededStep]_vars

C3_Witness ==
    \E t \in Threads :
        /\ pc[t] = "hc_ret"
        /\ BothSucceeded(t)
        /\ Sid(t) \in DOMAIN session_memory
        /\ session_memory[Sid(t)].interactions = <<frame[t].result>>
        /\ Len(frame[t].result.steps) = 2

\* C4: the store statement of ask_medical_question appends exactly one
\* entry at the end of the session's history, and that entry has a
\* question field equal to the question asked, whether the generator call
\* succeeded or failed.
C4_QuestionStep ==
    \A t \in Threads :
        (pc[t] = "qa_store" /\ Took(t)) =>
            LET h  == History(session_memory, Sid(t))
                h2 == History(session_memory', Sid(t)) IN
            /\ Len(h2) = Len(h) + 1
            /\ SubSeq(h2, 1, Len(h)) = h
            /\ "question" \in DOMAIN Last(h2)
            /\ Last(h2).question = frame[t].question

\* C4: every store step of a question appends one entry that carries the
\* question.
C4_QuestionAppendedVerbatim == [][C4_QuestionStep]_vars

\* C5: when all the concurrently entered workflow calls have returned, the
\* history of the session holds the earlier entries followed by exactly one
\* entry per call made against it (N more entries for N asks), and each
\* such call's result is among the new entries.
AllReturned == \A t \in Threads : pc[t] \in ReturnPcs

CallsOn(session_id) == {t \in Threads : Sid(t) = session_id}

C5_EachCallAppendsOnce ==
    AllReturned =>
        LET h == session_memory[S0].interactions
            n == Len(PriorHistory) IN
        /\ Len(h) = n + Cardinality(CallsOn(S0))
        /\ SubSeq(h, 1, n) = PriorHistory
        /\ \A t \in CallsOn(S0) :
               \E i \in (n + 1)..Len(h) : h[i] = frame[t].result

C5_Witness ==
    /\ AllReturned
    /\ \A t \in Threads :
           frame[t].op = "ask_medical_question" /\ Sid(t) = S0
    /\ Len(session_memory[S0].interactions) = Len(PriorHistory) + NumThreads

\* C9: of two health checks that have returned, one for an identifier that
\* is not in the store and one for an existing session, with the same
\* generator outcomes, both return a workflow result, and the two have the
\* same steps (up to the times at which the steps were taken).
StripTime(r) == [f \in DOMAIN r \ {"timestamp"} |-> r[f]]

StripTimes(steps) == [i \in 1..Len(steps) |-> StripTime(steps[i])]

C9_StepsIndependentOfSession ==
    \A t1, t2 \in Threads :
        (/\ pc[t1] = "hc_ret" /\ pc[t2] = "hc_ret"
         /\ Sid(t1) \notin DOMAIN session_memory
         /\ Sid(t2) \in DOMAIN session_memory
         /\ frame[t1].gen = frame[t2].gen)
        => /\ "steps" \in DOMAIN frame[t1].result
           /\ "steps" \in DOMAIN frame[t2].result
           /\ Len(frame[t1].result.steps) = Len(frame[t1].gen)
           /\ StripTimes(frame[t1].result.steps) =
                  StripTimes(frame[t2].result.steps)

C9_Witness ==
    \E t1, t2 \in Threads :
        /\ pc[t1] = "hc_ret" /\ pc[t2] = "hc_ret"
        /\ Sid(t1) \notin DOMAIN session_memory
        /\ Sid(t2) \in DOMAIN session_memory
        /\ frame[t1].gen = frame[t2].gen
        /\ Last(session_memory[Sid(t2)].interactions) = frame[t2].result
        /\ frame[t1].result.steps # <<>>

\* C10: every stored interaction, and every step of a stored workflow
\* result, has an agent, a timestamp and a status that is success or
\* error, and an error field when the status is error.
CommonFields(r) ==
    /\ {"agent", "timestamp", "status"} \subseteq DOMAIN r
    /\ r.status \in {"success", "error"}
    /\ r.status = "error" => "error" \in DOMAIN r

C10_CommonFields ==
    \A s \in DOMAIN session_memory :
        \A i \in 1..Len(session_memory[s].interactions) :
            LET e == session_memory[s].interactions[i] IN
            /\ CommonFields(e)
            /\ "steps" \in DOMAIN e =>
                   \A j \in 1..Len(e.steps) : CommonFields(e.steps[j])


\* C11: every step keeps each existing session and either leaves its
\* interaction sequence as it is or adds one element at its end; no step,
\* a later start_wellness_session included, removes, replaces or reorders
\* entries or empties the sequence.
C11_AppendOnlyStep ==
    \A s \in DOMAIN session_memory :
        /\ s \in DOMAIN session_memory'
        /\ LET h  == session_memory[s].interactions
               h2 == session_memory'[s].interactions IN
           \/ h2 = h
           \/ /\ Len(h2) = Len(h) + 1
              /\ SubSeq(h2, 1, Len(h)) = h

C11_AppendOnly == [][C11_AppendOnlyStep]_vars


\* C12: in a health check the analysis generator call comes first; the
\* recommendation generator call is made only after an analysis result of
\* status success and its prompt carries that result's analysis; no
\* generator call is made once the existence test is reached, so the
\* append comes after all executed steps; every advisor step makes exactly
\* one generator call: one or two per health check, one per question.
GenPcs == {"hc_analyze", "hc_recommend", "qa_answer"}

AfterStepsPcs ==
    {"hc_check", "hc_store", "hc_return", "hc_ret",
     "qa_check", "qa_store", "qa_return", "qa_ret"}

C12_OrderState ==
    \A t \in Threads :
        LET f == frame[t] IN
        /\ Len(f.prompts) = Len(f.gen)
        /\ IsHealthCheck(t) =>
              /\ Len(f.result.steps) = Len(f.gen)
              /\ pc[t] = "hc_analyze" => Len(f.gen) = 0
              /\ pc[t] = "hc_recommend" =>
                     /\ Len(f.gen) = 1
                     /\ f.result.steps[1].status = "success"
              /\ pc[t] \in AfterStepsPcs =>
                     /\ Len(f.gen) \in {1, 2}
                     /\ f.prompts[1] = AnalysisPrompt
                     /\ f.result.steps[1].agent = "HealthMonitor"
                     /\ Len(f.gen) = 2 =>
                            /\ f.result.steps[1].status = "success"
                            /\ f.result.steps[2].agent = "RecommendationEngine"
                            /\ f.prompts[2].template = "recommendations"
                            /\ f.prompts[2].analysis =
                                   f.result.steps[1].analysis
        /\ f.op = "ask_medical_question" =>
              /\ pc[t] = "qa_answer" => Len(f.gen) = 0
              /\ pc[t] \in AfterStepsPcs => Len(f.gen) = 1

C12_OrderStep ==
    \A t \in Threads :
        /\ (pc[t] \in GenPcs /\ Took(t)) =>
               Len(frame'[t].gen) = Len(frame[t].gen) + 1
        /\ (pc[t] \in AfterStepsPcs \ ReturnPcs /\ Took(t)) =>
               /\ frame'[t] = frame[t]
               /\ pc'[t] \in AfterStepsPcs
        /\ (pc[t] \in {"hc_store", "qa_store"} /\ Took(t)) =>
               Last(History(session_memory', Sid(t))) = frame[t].result

C12_FixedStepOrder == []C12_OrderState /\ [][C12_OrderStep]_vars

C12_Witness ==
    \E t \in Threads :
        /\ pc[t] = "hc_ret"
        /\ Len(frame[t].gen) = 2
        /\ frame[t].prompts[2].analysis = frame[t].result.steps[1].analysis
        /\ Sid(t) \in DOMAIN session_memory
        /\ session_memory[Sid(t)].interactions # <<>>
        /\ Len(Last(session_memory[Sid(t)].interactions).steps) = 2


\* C13: of two calls against the same existing session, when call a has
\* returned while call b has appended its entry and not yet returned (so a
\* returns before b), a's entry precedes b's entry in the session's
\* interaction sequence.
Position(h, t) ==
    CHOOSE i \in (Len(PriorHistory) + 1)..Len(h) : h[i] = frame[t].result

C13_CompletionOrder ==
    \A a, b \in Threads :
        (/\ a # b
         /\ Sid(a) = S0 /\ Sid(b) = S0
         /\ pc[a] \in {"hc_ret", "qa_ret"}
         /\ pc[b] \in {"hc_return", "qa_return"}
         /\ frame[a].result # frame[b].result)
        => LET h == session_memory[S0].interactions IN
           Position(h, a) < Position(h, b)


\* C14: a session never ends: the identifier a start_wellness_session has
\* returned is a key of the store, no step removes a key, so the summary
\* of a key is never the not-found value again; and a workflow that finds
\* its session at the existence test goes on to the append, which adds
\* its result to that session.
C14_CreatedIsKnown ==
    \A t \in Threads :
        pc[t] = "cs_ret" =>
            get_session_summary(session_memory, Sid(t)) # NotFound

C14_StaysUsable ==
    /\ \A s \in DOMAIN session_memory :
           get_session_summary(session_memory', s) # NotFound
    /\ \A t \in Threads :
           Took(t) =>
               /\ (pc[t] \in {"hc_check", "qa_check"}
                       /\ Sid(t) \in DOMAIN session_memory)
                      => pc'[t] \in {"hc_store", "qa_store"}
               /\ pc[t] \in {"hc_store", "qa_store"} =>
                      /\ pc'[t] \in {"hc_return", "qa_return"}
                      /\ Sid(t) \in DOMAIN session_memory'
                      /\ session_memory'[Sid(t)].interactions # <<>>
                      /\ Last(session_memory'[Sid(t)].interactions) =
                             frame[t].result

C14_NoTerminalState == []C14_CreatedIsKnown /\ [][C14_StaysUsable]_vars

C14_Witness ==
    \E t \in Threads :
        /\ pc[t] \in {"hc_ret", "qa_ret"}
        /\ get_session_summary(session_memory, Sid(t)) # NotFound
        /\ session_memory[Sid(t)].interactions # <<>>
        /\ Last(session_memory[Sid(t)].interactions) = frame[t].result
        /\ Cardinality(DOMAIN session_memory) >= 1


\* C15: a get_session_history step leaves the store exactly as it was,
\* for a known and for an unknown identifier (which is not added), and
\* hands back the record of the identifier or the not-found value.
Queried(t) ==
    \E s \in CallerIds(session_memory) : get_session_history(t, s)

C15_QueryStep ==
    \A t \in Threads :
        Queried(t) =>
            LET s == frame'[t].session_id IN
            /\ session_memory' = session_memory
            /\ s \notin DOMAIN session_memory =>
                   /\ s \notin DOMAIN session_memory'
                   /\ frame'[t].result = NotFound
            /\ s \in DOMAIN session_memory =>
                   frame'[t].result = session_memory[s]

C15_HistoryDoesNotMutate == [][C15_QueryStep]_vars

C15_Witness ==
    \E t \in Threads :
        /\ pc[t] = "gs_ret"
        /\ frame[t].result = NotFound
        /\ Sid(t) \notin DOMAIN session_memory


\* C16: every append goes to a session that exists at that moment and a
\* stored health-check result names the session that holds it; between
\* the existence test of a call and its append the session it tested stays
\* the same record (same user, same creation time, its entries kept), so
\* test and append act on one record, whatever else is interleaved.
IsPrefix(h, h2) == Len(h) <= Len(h2) /\ SubSeq(h2, 1, Len(h)) = h

C16_StoredInOwnSession ==
    \A s \in DOMAIN session_memory :
        \A i \in 1..Len(session_memory[s].interactions) :
            LET e == session_memory[s].interactions[i] IN
            "session_id" \in DOMAIN e => e.session_id = s

C16_SameRecordStep ==
    \A t \in Threads :
        pc[t] \in {"hc_store", "qa_store"} =>
            /\ Sid(t) \in DOMAIN session_memory
            /\ Sid(t) \in DOMAIN session_memory'
            /\ pc'[t] # "raised"
            /\ session_memory'[Sid(t)].user_id =
                   session_memory[Sid(t)].user_id
            /\ session_memory'[Sid(t)].created_at =
                   session_memory[Sid(t)].created_at
            /\ IsPrefix(session_memory[Sid(t)].interactions,
                        session_memory'[Sid(t)].interactions)

C16_AppendToExistingSession ==
    []C16_StoredInOwnSession /\ [][C16_SameRecordStep]_vars


\* C17: a step of a workflow against session s changes nothing in the
\* store but the interaction sequence of s, and a start_wellness_session
\* step leaves the record of every session that existed before it as it
\* was.
C17_IsolationStep ==
    \A t \in Threads :
        /\ (pc[t] \in WorkflowPcs /\ Took(t)) =>
               \A k \in DOMAIN session_memory :
                   /\ k \in DOMAIN session_memory'
                   /\ k # Sid(t) => session_memory'[k] = session_memory[k]
                   /\ session_memory'[k].user_id = session_memory[k].user_id
                   /\ session_memory'[k].created_at =
                          session_memory[k].created_at
        /\ Created(t) =>
               \A k \in DOMAIN session_memory :
                   /\ k \in DOMAIN session_memory'
                   /\ session_memory'[k] = session_memory[k]

C17_SessionIsolation == [][C17_IsolationStep]_vars


\* C18: while a workflow for session A is waiting on its generator call,
\* every step of a workflow for a different session B (its generator
\* call, its existence test, its append, its return) is enabled, a thread
\* with no call running can start a session, and A's own generator call
\* can complete.
StepOf(t) ==
    \/ HealthAnalysis(t)
    \/ Recommend(t)
    \/ Answer(t)
    \/ CheckSession(t)
    \/ StoreInteraction(t)
    \/ ReturnResult(t)

Waiting(a, b) == a # b /\ pc[a] \in GenPcs /\ Sid(a) # Sid(b)

C18_GeneratorCallDoesNotBlock ==
    \A a \in Threads : \A b \in Threads :
        Waiting(a, b) =>
            /\ ENABLED StepOf(a)
            /\ pc[b] \in WorkflowPcs => ENABLED StepOf(b)
            /\ (pc[b] \in ReturnPcs /\ ncalls < MaxCalls) =>
                   \A u \in Users : \A p \in Profiles :
                       ENABLED start_wellness_session(b, u, p)

C18_Witness ==
    \E a \in Threads : \E b \in Threads :
        /\ Waiting(a, b)
        /\ pc[b] \in {"hc_store", "qa_store"}


\* C19: each facade call leaves the store and hands back the value that
\* the Coordinator operation it delegates to would: start_wellness_session
\* those of create_session(user_id), whatever profile was passed;
\* get_session_history those of get_session_summary; a returned
\* perform_health_check or ask_medical_question the advisors' results as
\* the Coordinator assembled them.
C19_FacadeStep ==
    \A t \in Threads :
        /\ Created(t) =>
               LET r == create_session(session_memory, frame'[t].user_id,
                                       clock, clock') IN
               /\ session_memory' = r.session_memory
               /\ frame'[t].session_id = r.value
               /\ frame'[t].result = NoResult
        /\ Queried(t) =>
               /\ session_memory' = session_memory
               /\ frame'[t].result =
                      get_session_summary(session_memory,
                                          frame'[t].session_id)

C19_FacadeResult ==
    \A t \in Threads :
        LET f == frame[t] IN
        /\ pc[t] = "qa_ret" =>
               \E now \in 0..MaxClock :
                   f.result = answer_question(f.question, Last(f.gen),
                                              now).value
        /\ pc[t] = "hc_ret" =>
               /\ f.result.session_id = f.session_id
               /\ f.result.workflow = "health_check"
               /\ \E now \in 0..MaxClock : \E now2 \in 0..MaxClock :
                      LET a == analyze_health_data(f.gen[1], now).value IN
                      f.result.steps =
                          IF Len(f.gen) = 1
                          THEN <<a>>
                          ELSE <<a, generate_recommendations(f.gen[2],
                                                             now2).value>>

C19_FacadeIsPassThrough == []C19_FacadeResult /\ [][C19_FacadeStep]_vars

C19_Witness ==
    \E t \in Threads : \E o \in Threads :
        /\ pc[t] = "cs_ret"
        /\ frame[t].session_id \in DOMAIN session_memory
        /\ pc[o] \in {"hc_ret", "qa_ret"}
        /\ frame[o].session_id = frame[t].session_id
        /\ session_memory[frame[t].session_id].interactions =
               <<frame[o].result>>

TypeOK ==
    /\ clock \in 0..MaxClock
    /\ DOMAIN session_memory \subseteq SessionIds
    /\ ncalls \in 0..MaxCalls
====
